---------------------------- MODULE Spec2Model ----------------------------
(***************************************************************************)
(* Model of the CalTalk interval-scheduling engine:                        *)
(*   CalendarService  (src/backend/app/services/calendar.py)               *)
(*   SchedulerService (src/app/services/scheduler.py)                      *)
(*   Settings         (src/backend/app/config.py)                          *)
(*                                                                         *)
(* Time is counted in whole minutes since midnight of day 0.  A Python     *)
(* datetime is the record [kind |-> "datetime", t |-> minutes]; a Python   *)
(* date is [kind |-> "date", t |-> minutes of its midnight].  The Google   *)
(* calendar (the provider) is the sequence `events`; an event's id is its  *)
(* index in that sequence.                                                 *)
(***************************************************************************)
EXTENDS Integers, Sequences, FiniteSets, TLC

VARIABLES
    events,        \* the provider's calendar: Seq of [start, end, priority, summary]
    f_pc,          \* find_free_slots: "idle" | "loop" | "done" | "raised"
    f_dur,         \* find_free_slots: duration_minutes
    start_time,    \* find_free_slots: start of the day window
    end_time,      \* find_free_slots: end of the day window
    busy_slots,    \* find_free_slots: Seq of <<busy_start, busy_end>>
    current_time,  \* find_free_slots: the cursor
    free_slots,    \* find_free_slots: the slots emitted so far
    pc,            \* per client: position inside schedule_task / _select_best_slot
    task,          \* per client: the task being scheduled
    slots,         \* per client: schedule_task's local free_slots
    queried,       \* per client: the days passed to find_free_slots, in order
    outcome,       \* per client: how the request ended
    call,          \* the last whole-handler call (reschedule_conflicts, optimize_schedule)
    before         \* the calendar as it was when `call` started

vars == <<events, f_pc, f_dur, start_time, end_time, busy_slots, current_time,
          free_slots, pc, task, slots, queried, outcome, call, before>>

ffsVars == <<f_pc, f_dur, start_time, end_time, busy_slots, current_time, free_slots>>
clientVars == <<pc, task, slots, queried, outcome>>
callVars == <<call, before>>

---------------------------------------------------------------------------
(* Program constants *)

\* timedelta(days=1), in minutes
MinutesPerDay == 1440
\* datetime.hour: minutes per hour
MinutesPerHour == 60
\* slot['start'].hour < 12
NoonHour == 12
\* current_time += timedelta(minutes=15)
StepMinutes == 15
\* Settings.DEFAULT_EVENT_DURATION
DEFAULT_EVENT_DURATION == 60

\* Settings.PRIORITY_LEVELS
PRIORITY_LEVELS == <<"low", "medium", "high", "urgent">>

---------------------------------------------------------------------------
(* Bounds of the model *)

\* calendar events start and end on a grid of this many points per day
PointsPerDay == 3
\* at most this many events in an initial calendar
MaxEvents == 2
\* a find_free_slots call whose duration is not positive stops being explored
\* once it has emitted this many slots
MaxSlots == 3
\* at most this many events in the calendar two schedule requests start from
MaxSchedEvents == 1
\* the longest slot list handed to _select_best_slot on its own
MaxSelectLen == 3

GridMinutes == MinutesPerDay \div PointsPerDay
\* the days find_free_slots is called for; events lie within these two days
Days == {0, 1}
HorizonPoints == 0..(2 * PointsPerDay)
Points == {k * GridMinutes : k \in HorizonPoints}
Intervals == {iv \in Points \X Points : iv[1] < iv[2]}

IntervalLeq(a, b) == a[1] < b[1] \/ (a[1] = b[1] /\ a[2] <= b[2])

\* interval lists of length n, listed in start order
IntervalLists(n) ==
    {q \in [1..n -> Intervals] : \A i \in 1..(n - 1) : IntervalLeq(q[i], q[i + 1])}

Event(iv, prio, title) ==
    [start |-> iv[1], end |-> iv[2], priority |-> prio, summary |-> title]

\* calendars of at most max events that carry no priority field
PlainCalendarsUpTo(max) ==
    UNION {{[i \in 1..n |-> Event(q[i], "absent", "busy")] : q \in IntervalLists(n)}
           : n \in 0..max}

PlainCalendars == PlainCalendarsUpTo(MaxEvents)

---------------------------------------------------------------------------
(* Python values *)

DateTime(t) == [kind |-> "datetime", t |-> t]
\* datetime.date(): the date of a datetime
DateOf(dt) == [kind |-> "date", t |-> dt.t - (dt.t % MinutesPerDay)]
\* datetime.combine(date, datetime.min.time())
Combine(d) == [kind |-> "datetime", t |-> d.t]
\* the date of day number n
DateOfDay(n) == [kind |-> "date", t |-> n * MinutesPerDay]
\* datetime.hour
HourOf(t) == (t % MinutesPerDay) \div MinutesPerHour

\* x.replace(hour=0, minute=0, second=0, microsecond=0): a datetime gives its
\* midnight; a date has no such fields and replace() raises TypeError
ReplaceMidnight(x) ==
    IF x.kind = "datetime"
    THEN [raised |-> "none", t |-> x.t - (x.t % MinutesPerDay)]
    ELSE [raised |-> "TypeError", t |-> 0]

Abs(n) == IF n < 0 THEN 0 - n ELSE n

---------------------------------------------------------------------------
(* CalendarService *)

\* events().list(timeMin, timeMax, singleEvents, orderBy='startTime'): the ids
\* of the events that end after timeMin and start before timeMax
ListedIds(cal, timeMin, timeMax) ==
    {i \in DOMAIN cal : cal[i].end > timeMin /\ cal[i].start < timeMax}

\* the id listed first: earliest start, lowest id among equal starts
FirstListed(cal, ids) ==
    CHOOSE i \in ids : \A j \in ids :
        cal[i].start < cal[j].start \/ (cal[i].start = cal[j].start /\ i <= j)

RECURSIVE OrderByStart(_, _)
OrderByStart(cal, ids) ==
    IF ids = {} THEN <<>>
    ELSE LET i == FirstListed(cal, ids)
         IN  <<i>> \o OrderByStart(cal, ids \ {i})

\* get_daily_agenda(date): ids of the day's events in start order
GetDailyAgenda(cal, dayStart) ==
    OrderByStart(cal, ListedIds(cal, dayStart, dayStart + MinutesPerDay))

\* check_conflicts(start_time, end_time)
CheckConflicts(cal, from, to) == OrderByStart(cal, ListedIds(cal, from, to))

\* find_free_slots, lines 157-162: busy_slots from the day's events
BusySlotsOf(cal, dayStart) ==
    LET agenda == GetDailyAgenda(cal, dayStart)
    IN  [k \in 1..Len(agenda) |-> <<cal[agenda[k]].start, cal[agenda[k]].end>>]

\* a test that looks at the candidate's start only
BlocksStartOnly(b, cur, slotEnd) == cur < b[2] /\ cur >= b[1]

\* find_free_slots, line 175: the candidate [cur, slotEnd) against busy slot b
Blocks(b, cur, slotEnd) == cur < b[2] /\ slotEnd > b[1]

\* index of the first busy slot the for loop breaks on, 0 if it runs through
FirstBlocking(busy, cur, slotEnd) ==
    IF \E k \in 1..Len(busy) : Blocks(busy[k], cur, slotEnd)
    THEN CHOOSE k \in 1..Len(busy) :
            /\ Blocks(busy[k], cur, slotEnd)
            /\ \A j \in 1..(k - 1) : ~Blocks(busy[j], cur, slotEnd)
    ELSE 0

\* find_free_slots, line 169
SlotEnd(cur, dur) == cur + dur

\* the cursor set to the start of the blocking slot instead of its end
AfterBusyFromStart(b) == b[1] + StepMinutes

\* find_free_slots, lines 177 and 187: the cursor after a candidate blocked by
\* busy slot b
AfterBusy(b) == b[2] + StepMinutes

\* a sliding window: the cursor moves one step after a free candidate
AfterFreeSliding(cur, slotEnd) == cur + StepMinutes

\* find_free_slots, line 185: the cursor after a free candidate
AfterFree(cur, slotEnd) == slotEnd

\* find_free_slots, lines 181-185: the slot emitted for a free candidate
Slot(cur, slotEnd) == [start |-> cur, end |-> slotEnd]

\* one pass of the while loop body, lines 169-187, from cursor cur with the
\* slots found so far: the new cursor, the new slots, and whether it broke out
LoopBody(busy, winEnd, dur, cur, found) ==
    LET slotEnd == SlotEnd(cur, dur)
        k == FirstBlocking(busy, cur, slotEnd)
    IN  IF slotEnd > winEnd
        THEN [cur |-> cur, found |-> found, broke |-> TRUE]
        ELSE IF k = 0
        THEN [cur |-> AfterFree(cur, slotEnd),
              found |-> Append(found, Slot(cur, slotEnd)), broke |-> FALSE]
        ELSE [cur |-> AfterBusy(busy[k]), found |-> found, broke |-> FALSE]


\* the while loop, lines 168-187, run to its end (dur > 0)
RECURSIVE RunLoop(_, _, _, _, _)
RunLoop(busy, winEnd, dur, cur, found) ==
    IF ~(cur < winEnd) THEN found
    ELSE LET r == LoopBody(busy, winEnd, dur, cur, found)
         IN  IF r.broke THEN r.found
             ELSE RunLoop(busy, winEnd, dur, r.cur, r.found)

\* find_free_slots(date, duration_minutes) as one call (dur > 0): what it raises
\* and the slots it returns
FindFreeSlots(cal, date, dur) ==
    LET day == ReplaceMidnight(date)
    IN  IF day.raised # "none"
        THEN [raised |-> day.raised, slots |-> <<>>]
        ELSE [raised |-> "none",
              slots |-> RunLoop(BusySlotsOf(cal, day.t), day.t + MinutesPerDay,
                                dur, day.t, <<>>)]

---------------------------------------------------------------------------
(* find_free_slots, statement by statement *)

\* the durations find_free_slots is called with, in minutes
FfsDurations == {0 - MinutesPerHour, 0, 4 * MinutesPerHour, 8 * MinutesPerHour,
                 MinutesPerDay}
\* the arguments it is called with: a datetime of the day, or (as
\* reschedule_conflicts passes it) a date
FfsDates == {DateTime(d * MinutesPerDay + GridMinutes \div 2) : d \in Days}
            \cup {DateOfDay(d) : d \in Days}

\* lines 151-166: the window, the day's busy slots, the cursor at the window start
FfsCall(date, dur) ==
    /\ f_pc = "idle"
    /\ LET day == ReplaceMidnight(date)
       IN  IF day.raised # "none"
           THEN /\ f_pc' = "raised"
                /\ UNCHANGED <<start_time, end_time, busy_slots, current_time>>
           ELSE /\ f_pc' = "loop"
                /\ start_time' = day.t
                /\ end_time' = day.t + MinutesPerDay
                /\ busy_slots' = BusySlotsOf(events, day.t)
                /\ current_time' = day.t
    /\ f_dur' = dur
    /\ free_slots' = <<>>
    /\ UNCHANGED <<events, clientVars, callVars>>

\* lines 168-187: one iteration of the while loop
FfsIterate ==
    /\ f_pc = "loop"
    /\ current_time < end_time
    /\ (f_dur > 0 \/ Len(free_slots) < MaxSlots)
    /\ LET r == LoopBody(busy_slots, end_time, f_dur, current_time, free_slots)
       IN  /\ current_time' = r.cur
           /\ free_slots' = r.found
           /\ f_pc' = IF r.broke THEN "done" ELSE "loop"
    /\ UNCHANGED <<events, f_dur, start_time, end_time, busy_slots, clientVars, callVars>>

\* lines 168 and 189: the loop condition fails, free_slots is returned
FfsReturn ==
    /\ f_pc = "loop"
    /\ ~(current_time < end_time)
    /\ f_pc' = "done"
    /\ UNCHANGED <<events, f_dur, start_time, end_time, busy_slots, current_time,
                   free_slots, clientVars, callVars>>

Clients == {1, 2}
NoTask == [title |-> "", duration_minutes |-> 0, preferred_date |-> 0, priority |-> ""]
NoCall == [op |-> "none"]

IdleClients ==
    /\ pc = [c \in Clients |-> "idle"]
    /\ task = [c \in Clients |-> NoTask]
    /\ slots = [c \in Clients |-> <<>>]
    /\ queried = [c \in Clients |-> <<>>]
    /\ outcome = [c \in Clients |-> "none"]

IdleFfs ==
    /\ f_pc = "idle"
    /\ f_dur = 0
    /\ start_time = 0
    /\ end_time = 0
    /\ busy_slots = <<>>
    /\ current_time = 0
    /\ free_slots = <<>>

IdleCall ==
    /\ call = NoCall
    /\ before = <<>>

InitFFS ==
    /\ events \in PlainCalendars
    /\ IdleFfs
    /\ IdleClients
    /\ IdleCall

NextFFS ==
    \/ \E date \in FfsDates, dur \in FfsDurations : FfsCall(date, dur)
    \/ FfsIterate
    \/ FfsReturn

SpecFFS == InitFFS /\ [][NextFFS]_vars

\* calls with a positive duration only
NextPositiveFFS ==
    \/ \E date \in FfsDates, dur \in {d \in FfsDurations : d > 0} : FfsCall(date, dur)
    \/ FfsIterate
    \/ FfsReturn

\* the interpreter runs the loop whenever it can: a call in progress is never
\* suspended for ever
FairSpecFFS ==
    InitFFS /\ [][NextPositiveFFS]_vars /\ WF_vars(FfsIterate) /\ WF_vars(FfsReturn)

---------------------------------------------------------------------------
(* Properties of find_free_slots *)

\* the half-open overlap test of two intervals given by their ends
Overlap(s1, e1, s2, e2) == s1 < e2 /\ s2 < e1

FfsRunning == f_pc \in {"loop", "done"}

\* C1: for a duration D > 0, every slot find_free_slots has emitted is exactly
\* D long, lies inside the day window [start_time, start_time + 24h], and
\* overlaps no event of the calendar under the half-open test
C1_SlotsFitAndFree ==
    (FfsRunning /\ f_dur > 0) =>
        \A i \in 1..Len(free_slots) :
            LET s == free_slots[i]
            IN  /\ s.end - s.start = f_dur
                /\ s.start >= start_time
                /\ s.end <= end_time
                /\ end_time = start_time + MinutesPerDay
                /\ \A e \in DOMAIN events :
                       ~Overlap(s.start, s.end, events[e].start, events[e].end)

\* a finished call that found a slot right behind a busy event and one before
\* the end of the window, in a day that has events
C1_Witness ==
    /\ f_pc = "done"
    /\ f_dur > 0
    /\ Len(busy_slots) > 0
    /\ Len(free_slots) >= 2
    /\ free_slots[1].start > start_time
    /\ free_slots[Len(free_slots)].end <= end_time

\* C2: for a duration D > 0, the slots emitted are in strictly increasing start
\* order and each ends at or before the start of the next
C2_SlotsOrderedDisjoint ==
    (FfsRunning /\ f_dur > 0) =>
        \A i \in 1..(Len(free_slots) - 1) :
            /\ free_slots[i].start < free_slots[i + 1].start
            /\ free_slots[i].end <= free_slots[i + 1].start

\* a finished call with two consecutive slots that have a busy event between
\* them, and two that touch
C2_Witness ==
    /\ f_pc = "done"
    /\ f_dur > 0
    /\ \E i \in 1..(Len(free_slots) - 1) : free_slots[i].end < free_slots[i + 1].start
    /\ \E i \in 1..(Len(free_slots) - 1) : free_slots[i].end = free_slots[i + 1].start

\* for a duration D > 0 the cursor strictly increases on every iteration of the
\* loop that does not leave it: by D after a free candidate, to beyond the end
\* of a blocking slot after a busy one
C9_CursorAdvances ==
    [][(f_pc = "loop" /\ f_pc' = "loop" /\ f_dur > 0) =>
          /\ current_time' > current_time
          /\ Len(free_slots') > Len(free_slots) => current_time' = current_time + f_dur
          /\ Len(free_slots') = Len(free_slots) =>
                 \E k \in 1..Len(busy_slots) :
                     /\ Blocks(busy_slots[k], current_time, current_time + f_dur)
                     /\ current_time' > busy_slots[k][2]]_vars

\* C9: for every duration D > 0 find_free_slots terminates: the cursor strictly
\* increases on every iteration of the loop (the action property above), and a
\* call that has entered the loop returns
C9_Terminates ==
    /\ C9_CursorAdvances
    /\ (f_pc = "loop" /\ f_dur > 0) ~> (f_pc = "done")

\* a finished call for a positive duration that went through a free and a
\* busy iteration
C9_Witness ==
    /\ f_pc = "done"
    /\ f_dur > 0
    /\ Len(free_slots) > 0
    /\ \E i \in 1..Len(free_slots) :
           \E k \in 1..Len(busy_slots) : free_slots[i].start = busy_slots[k][2] + StepMinutes

\* C10: a call with duration <= 0 is rejected: it raises, never enters the
\* loop and yields no slots
C10_NonPositiveRejected ==
    (f_pc # "idle" /\ f_dur <= 0) => (f_pc = "raised" /\ free_slots = <<>>)

---------------------------------------------------------------------------
(* SchedulerService.schedule_task and _select_best_slot *)

\* a test that takes the slots from noon on
IsAfternoon(slot) == HourOf(slot.start) >= NoonHour

\* slot['start'].hour < 12
IsMorning(slot) == HourOf(slot.start) < NoonHour

\* a selection that ignores the priority and the time of day
SelectFirstSlot(found, priority) == found[1]

\* _select_best_slot(free_slots, priority), on a non-empty list
SelectBestSlot(found, priority) ==
    LET morning_slots == SelectSeq(found, IsMorning)
    IN  IF (priority = "high" \/ priority = "urgent") /\ morning_slots # <<>>
        THEN morning_slots[1]
        ELSE found[1]

\* an insert that the provider refuses when the interval is taken
CreateEventIfFree(cal, title, from, to) ==
    IF \E i \in DOMAIN cal : Overlap(from, to, cal[i].start, cal[i].end)
    THEN cal
    ELSE Append(cal, Event(<<from, to>>, "absent", title))

\* create_event(event_data): events().insert of a body with summary, start and
\* end (the body carries no priority)
CreateEvent(cal, title, from, to) ==
    Append(cal, Event(<<from, to>>, "absent", title))

\* the retry looks two days ahead
NextDateSkipping(d) == d + 2

\* preferred_date + timedelta(days=1)
NextDate(d) == d + 1

\* the tasks a client asks to schedule; a task without 'priority' counts as
\* 'medium' and one without 'duration_minutes' as DEFAULT_EVENT_DURATION
TaskDurations == {8 * MinutesPerHour, MinutesPerDay}
TaskPriorities == {"low", "urgent"}
\* the preferred date is day 0, the retry is for day 1
PreferredDates == {0}
\* task['title'] of client c's task
TitleOf(c) == IF c = 1 THEN "task 1" ELSE "task 2"
Tasks(c) ==
    [title : {TitleOf(c)}, duration_minutes : TaskDurations, preferred_date : PreferredDates,
     priority : TaskPriorities]

\* what one find_free_slots call of schedule_task read and returned
Query(cal, day, found) ==
    [day |-> day, busy |-> BusySlotsOf(cal, day * MinutesPerDay), found |-> Len(found)]

\* lines 13-25: the task's duration and date, find_free_slots on the preferred day
SchedFindPreferred(c, t) ==
    /\ pc[c] = "idle"
    /\ LET found == FindFreeSlots(events, Combine(DateOfDay(t.preferred_date)),
                                  t.duration_minutes).slots
       IN  /\ slots' = [slots EXCEPT ![c] = found]
           /\ queried' = [queried EXCEPT ![c] = <<Query(events, t.preferred_date, found)>>]
           /\ pc' = [pc EXCEPT ![c] = IF found = <<>> THEN "retry" ELSE "create"]
    /\ task' = [task EXCEPT ![c] = t]
    /\ UNCHANGED <<events, outcome, ffsVars, callVars>>

\* lines 27-36: nothing on the preferred day: find_free_slots on the next day,
\* ValueError when that is empty too
SchedFindNext(c) ==
    /\ pc[c] = "retry"
    /\ LET next_date == NextDate(task[c].preferred_date)
           found == FindFreeSlots(events, Combine(DateOfDay(next_date)),
                                  task[c].duration_minutes).slots
       IN  /\ slots' = [slots EXCEPT ![c] = found]
           /\ queried' = [queried EXCEPT ![c] = Append(@, Query(events, next_date, found))]
           /\ pc' = [pc EXCEPT ![c] = IF found = <<>> THEN "done" ELSE "create"]
           /\ outcome' = [outcome EXCEPT ![c] = IF found = <<>> THEN "ValueError" ELSE @]
    /\ UNCHANGED <<events, task, ffsVars, callVars>>

\* lines 38-50: select the slot and create the event
SchedCreate(c) ==
    /\ pc[c] = "create"
    /\ LET selected_slot == SelectBestSlot(slots[c], task[c].priority)
       IN  events' = CreateEvent(events, task[c].title, selected_slot.start,
                                 selected_slot.end)
    /\ pc' = [pc EXCEPT ![c] = "done"]
    /\ outcome' = [outcome EXCEPT ![c] = "created"]
    /\ UNCHANGED <<task, slots, queried, ffsVars, callVars>>

Init ==
    /\ events \in PlainCalendarsUpTo(MaxSchedEvents)
    /\ IdleFfs
    /\ IdleClients
    /\ IdleCall

Next ==
    \/ \E c \in Clients : \E t \in Tasks(c) : SchedFindPreferred(c, t)
    \/ \E c \in Clients : SchedFindNext(c)
    \/ \E c \in Clients : SchedCreate(c)

Spec == Init /\ [][Next]_vars

---------------------------------------------------------------------------
(* Properties of schedule_task *)

\* the ids of the events created for client c's task
CreatedFor(c) == {i \in DOMAIN events : events[i].summary = TitleOf(c)}

LastQuery(c) == queried[c][Len(queried[c])]

\* both requests have finished with an event, and the last find_free_slots call
\* of each read the same day with the same busy slots for the same duration
BothReadTheSame ==
    /\ \A c \in Clients : pc[c] = "done" /\ outcome[c] = "created"
    /\ LastQuery(1).day = LastQuery(2).day
    /\ LastQuery(1).busy = LastQuery(2).busy
    /\ task[1].duration_minutes = task[2].duration_minutes

\* C3: nothing makes read-decide-write atomic: whenever two schedule requests
\* have both read the same busy set of the same day (for the same duration)
\* and both finished, each has inserted its event and the two events overlap
\* (they are double-booked)
C3_RaceDoubleBooks ==
    BothReadTheSame =>
        /\ \A c \in Clients : Cardinality(CreatedFor(c)) = 1
        /\ \A i \in CreatedFor(1) : \A j \in CreatedFor(2) :
               Overlap(events[i].start, events[i].end, events[j].start, events[j].end)

\* two finished requests that read the same busy set of a day with a busy
\* event, and whose events overlap
C3_Witness ==
    /\ BothReadTheSame
    /\ LastQuery(1).busy # <<>>
    /\ \E i \in CreatedFor(1) : \E j \in CreatedFor(2) :
           Overlap(events[i].start, events[i].end, events[j].start, events[j].end)

\* the event created for client c lies within day d
CreatedOnDay(c, d) ==
    /\ outcome[c] = "created"
    /\ Cardinality(CreatedFor(c)) = 1
    /\ \A i \in CreatedFor(c) :
           /\ events[i].start >= d * MinutesPerDay
           /\ events[i].end <= (d + 1) * MinutesPerDay

\* C4: schedule_task asks find_free_slots for the preferred day first; when
\* that call returns a slot the event is created on the preferred day and no
\* other day is asked for; only when it returns none is the next day
\* (preferred + 1) asked for, once; when that returns none too the request
\* ends with ValueError and no event is created; no third day is asked for
C4_PreferredThenNextDay ==
    \A c \in Clients :
        LET q == queried[c]
            d == task[c].preferred_date
        IN  /\ Len(q) <= 2
            /\ pc[c] # "idle" => (Len(q) >= 1 /\ q[1].day = d)
            /\ Len(q) = 2 => (q[1].found = 0 /\ q[2].day = d + 1)
            /\ pc[c] = "done" =>
                   /\ q[1].found > 0 => (Len(q) = 1 /\ CreatedOnDay(c, d))
                   /\ q[1].found = 0 => Len(q) = 2
                   /\ (Len(q) = 2 /\ q[2].found > 0) => CreatedOnDay(c, d + 1)
                   /\ (Len(q) = 2 /\ q[2].found = 0) =>
                          (outcome[c] = "ValueError" /\ CreatedFor(c) = {})
            /\ pc[c] # "done" => CreatedFor(c) = {}

\* one request placed on the next day after the preferred day gave nothing,
\* the other failed after both days gave nothing
C4_Witness ==
    /\ pc[1] = "done" /\ outcome[1] = "ValueError"
    /\ Len(queried[1]) = 2 /\ CreatedFor(1) = {}
    /\ pc[2] = "done" /\ Len(queried[2]) = 2
    /\ CreatedOnDay(2, task[2].preferred_date + 1)

---------------------------------------------------------------------------
(* _select_best_slot on its own *)

\* slot lists of length 1..MaxSelectLen, in any order, of slots that start at
\* 09:00 or 14:00 of either day
SelectStarts == {d * MinutesPerDay + h * MinutesPerHour : d \in Days, h \in {9, 14}}
SelectSlots == {Slot(t, t + DEFAULT_EVENT_DURATION) : t \in SelectStarts}
SelectLists == UNION {[1..n -> SelectSlots] : n \in 1..MaxSelectLen}
SelectPriorities == {"low", "medium", "high", "urgent", "other"}

\* _select_best_slot(free_slots, priority), lines 52-61
SelectBestSlotCall(found, priority) ==
    /\ call = NoCall
    /\ call' = [op |-> "select_best_slot", free_slots |-> found, priority |-> priority,
                result |-> SelectBestSlot(found, priority)]
    /\ before' = events
    /\ UNCHANGED <<events, ffsVars, clientVars>>

InitSelect ==
    /\ events = <<>>
    /\ IdleFfs
    /\ IdleClients
    /\ IdleCall

NextSelect ==
    \E found \in SelectLists, priority \in SelectPriorities :
        SelectBestSlotCall(found, priority)

SpecSelect == InitSelect /\ [][NextSelect]_vars

Chronological(found) ==
    \A i \in 1..(Len(found) - 1) : found[i].start <= found[i + 1].start

\* the positions of the slots that start before 12:00
MorningPositions(found) ==
    {k \in 1..Len(found) : HourOf(found[k].start) < NoonHour}

\* C5: on a non-empty slot list, for priority high or urgent the result is the
\* first slot in input order whose start hour is before 12:00, or the first
\* slot of the list when no slot starts before 12:00; for every other
\* priority it is the first slot of the list
C5_SelectBest ==
    call.op = "select_best_slot" =>
        LET found == call.free_slots
            mornings == MorningPositions(found)
        IN  IF call.priority \in {"high", "urgent"} /\ mornings # {}
            THEN \E k \in mornings :
                     /\ \A j \in mornings : k <= j
                     /\ call.result = found[k]
            ELSE call.result = found[1]

\* an urgent request on a chronological list that opens with an afternoon
\* slot and has a morning slot later: the morning slot is returned
C5_Witness ==
    /\ call.op = "select_best_slot"
    /\ call.priority = "urgent"
    /\ Chronological(call.free_slots)
    /\ HourOf(call.free_slots[1].start) >= NoonHour
    /\ HourOf(call.result.start) < NoonHour
    /\ call.result # call.free_slots[1]

---------------------------------------------------------------------------
(* SchedulerService.reschedule_conflicts and optimize_schedule *)

NoEvent == [start |-> 0, end |-> 0, priority |-> "absent", summary |-> ""]

\* an update that moves the start and leaves the end where it was
UpdateEventStartOnly(cal, id, from, to) ==
    [cal EXCEPT ![id] = [@ EXCEPT !.start = from]]

\* an update that computes the new placement and stores nothing
UpdateEventNotStored(cal, id, from, to) == cal

\* update_event(event_id, {'start_time', 'end_time'}): the stored event gets the
\* new start and end and keeps its summary
UpdateEvent(cal, id, from, to) ==
    [cal EXCEPT ![id] = [@ EXCEPT !.start = from, !.end = to]]

\* min(free_slots, key=lambda x: abs(x['start'] - new_time)): the first slot of
\* the list among those nearest to new_time
SelectNearest(found, new_time) ==
    LET dist(k) == Abs(found[k].start - new_time)
        k == CHOOSE k \in 1..Len(found) :
                 /\ \A j \in 1..Len(found) : dist(k) <= dist(j)
                 /\ \A j \in 1..(k - 1) : dist(j) > dist(k)
    IN  found[k]

\* reschedule_conflicts(event_id, new_time): what it raises, the calendar it
\* leaves and the event it returns.  All times are whole minutes, so
\* int(duration.total_seconds() / 60) is the duration itself.
RescheduleConflicts(cal, id, new_time) ==
    LET original_event == cal[id]
        duration == original_event.end - original_event.start
        conflicts == CheckConflicts(cal, new_time, new_time + duration)
        found == FindFreeSlots(cal, DateOf(DateTime(new_time)), duration)
        target == IF conflicts = <<>> THEN new_time
                  ELSE SelectNearest(found.slots, new_time).start
        updated == UpdateEvent(cal, id, target, target + duration)
    IN  IF conflicts # <<>> /\ found.raised # "none"
        THEN [raised |-> found.raised, cal |-> cal, event |-> NoEvent]
        ELSE IF conflicts # <<>> /\ found.slots = <<>>
        THEN [raised |-> "ValueError", cal |-> cal, event |-> NoEvent]
        ELSE [raised |-> "none", cal |-> updated, event |-> updated[id]]

\* a rank that gives an event without a priority the default rank 0 of get()
RankNoDefault(priority) ==
    IF \E k \in 1..Len(PRIORITY_LEVELS) : PRIORITY_LEVELS[k] = priority
    THEN (CHOOSE k \in 1..Len(PRIORITY_LEVELS) : PRIORITY_LEVELS[k] = priority) - 1
    ELSE 0

\* priority_order.get(x.get('priority', 'medium'), 0)
Rank(priority) ==
    LET p == IF priority = "absent" THEN "medium" ELSE priority
    IN  IF \E k \in 1..Len(PRIORITY_LEVELS) : PRIORITY_LEVELS[k] = p
        THEN (CHOOSE k \in 1..Len(PRIORITY_LEVELS) : PRIORITY_LEVELS[k] = p) - 1
        ELSE 0

\* sorted(events, key=rank): a stable sort of a list of event ids by the rank
\* of the event's priority
RECURSIVE SortedByRank(_, _)
SortedByRank(cal, ids) ==
    IF ids = <<>> THEN <<>>
    ELSE LET k == CHOOSE k \in 1..Len(ids) :
                      /\ \A j \in 1..Len(ids) :
                             Rank(cal[ids[k]].priority) <= Rank(cal[ids[j]].priority)
                      /\ \A j \in 1..(k - 1) :
                             Rank(cal[ids[j]].priority) > Rank(cal[ids[k]].priority)
             rest == [j \in 1..(Len(ids) - 1) |-> IF j < k THEN ids[j] ELSE ids[j + 1]]
         IN  <<ids[k]>> \o SortedByRank(cal, rest)

\* an entry of optimized_schedule
Entry(id, from, to) == [id |-> id, start_time |-> from, end_time |-> to]

\* lines 184-187: the entries already placed that [from, to) conflicts with
AccumulatorConflicts(optimized, from, to) ==
    {k \in 1..Len(optimized) :
        from < optimized[k].end_time /\ to > optimized[k].start_time}

\* the for loop of optimize_schedule, lines 179-210, from position k of
\* sorted_events; snapshot holds the events as get_daily_agenda returned them.
\* A ValueError of reschedule_conflicts is caught; anything else it raises
\* leaves the loop and the function.
RECURSIVE OptimizeLoop(_, _, _, _, _)
OptimizeLoop(cal, snapshot, sorted_events, k, optimized) ==
    IF k > Len(sorted_events)
    THEN [raised |-> "none", cal |-> cal, optimized_schedule |-> optimized]
    ELSE LET id == sorted_events[k]
             from == snapshot[id].start
             to == snapshot[id].end
             kept == Append(optimized, Entry(id, from, to))
         IN  IF AccumulatorConflicts(optimized, from, to) = {}
             THEN OptimizeLoop(cal, snapshot, sorted_events, k + 1, kept)
             ELSE LET r == RescheduleConflicts(cal, id, from)
                  IN  IF r.raised = "none"
                      THEN OptimizeLoop(r.cal, snapshot, sorted_events, k + 1,
                               Append(optimized, Entry(id, r.event.start, r.event.end)))
                      ELSE IF r.raised = "ValueError"
                      THEN OptimizeLoop(r.cal, snapshot, sorted_events, k + 1, kept)
                      ELSE [raised |-> r.raised, cal |-> r.cal,
                            optimized_schedule |-> optimized]

\* optimize_schedule(date)
OptimizeSchedule(cal, date) ==
    LET agenda == GetDailyAgenda(cal, ReplaceMidnight(date).t)
    IN  OptimizeLoop(cal, cal, SortedByRank(cal, agenda), 1, <<>>)


\* the calendars the two handlers are called on: events within day 0, listed in
\* start order, each without a priority, with a configured one or with an
\* unrecognised one
CallPoints == {k * GridMinutes : k \in 0..PointsPerDay}
CallIntervals == {iv \in CallPoints \X CallPoints : iv[1] < iv[2]}
EventPriorities == {"absent", "urgent", "other"}
CallCalendars ==
    UNION {{[i \in 1..n |-> Event(q[i], p[i], "busy")] :
               q \in {q \in [1..n -> CallIntervals] :
                          \A i \in 1..(n - 1) : IntervalLeq(q[i], q[i + 1])},
               p \in [1..n -> EventPriorities]}
           : n \in 0..MaxEvents}

\* the desired starts: on the grid, and one step after a grid point
NewTimes == {k * GridMinutes + off : k \in 0..(PointsPerDay - 1), off \in {0, StepMinutes}}

\* reschedule_conflicts(event_id, new_time), lines 63-99
RescheduleConflictsCall(id, new_time) ==
    /\ call = NoCall
    /\ LET r == RescheduleConflicts(events, id, new_time)
       IN  /\ events' = r.cal
           /\ call' = [op |-> "reschedule_conflicts", event_id |-> id,
                       new_time |-> new_time, raised |-> r.raised, event |-> r.event]
    /\ before' = events
    /\ UNCHANGED <<ffsVars, clientVars>>

\* optimize_schedule(date), lines 165-212
OptimizeScheduleCall(date) ==
    /\ call = NoCall
    /\ LET r == OptimizeSchedule(events, date)
       IN  /\ events' = r.cal
           /\ call' = [op |-> "optimize_schedule", date |-> date, raised |-> r.raised,
                       optimized_schedule |-> r.optimized_schedule]
    /\ before' = events
    /\ UNCHANGED <<ffsVars, clientVars>>

InitCalls ==
    /\ events \in CallCalendars
    /\ IdleFfs
    /\ IdleClients
    /\ IdleCall

NextCalls ==
    \/ \E id \in DOMAIN events, new_time \in NewTimes : RescheduleConflictsCall(id, new_time)
    \/ OptimizeScheduleCall(DateTime(GridMinutes))

SpecCalls == InitCalls /\ [][NextCalls]_vars

---------------------------------------------------------------------------
(* Properties of reschedule_conflicts and optimize_schedule *)

\* the duration of event id before the call
OriginalDuration(id) == before[id].end - before[id].start

\* some event of the calendar, as it was before the call, overlaps [from, to)
BusyBefore(from, to) ==
    \E i \in DOMAIN before : Overlap(from, to, before[i].start, before[i].end)

Rescheduled == call.op = "reschedule_conflicts"

\* C6: when [desired start, desired start + duration) overlaps no event of the
\* calendar, reschedule_conflicts accepts the desired start: the event is
\* placed at exactly [desired start, desired start + original duration)
C6_FreeStartAccepted ==
    (Rescheduled /\ ~BusyBefore(call.new_time, call.new_time + OriginalDuration(call.event_id)))
        => /\ call.raised = "none"
           /\ events[call.event_id].start = call.new_time
           /\ events[call.event_id].end = call.new_time + OriginalDuration(call.event_id)
           /\ call.event = events[call.event_id]

\* an event moved to a free start other than its own, in a calendar with
\* another event
C6_Witness ==
    /\ Rescheduled
    /\ ~BusyBefore(call.new_time, call.new_time + OriginalDuration(call.event_id))
    /\ Len(before) >= 2
    /\ call.new_time # before[call.event_id].start
    /\ events[call.event_id].start = call.new_time

\* C7: when the desired interval overlaps an event, reschedule_conflicts moves
\* the event to the slot find_free_slots gives for the desired day and the
\* event's duration whose start is nearest to the desired start (the first
\* such slot of the list); when the day has no slot it raises ValueError and
\* the event is not updated
C7_ConflictMovesToNearest ==
    (Rescheduled /\ BusyBefore(call.new_time, call.new_time + OriginalDuration(call.event_id)))
        => LET d == OriginalDuration(call.event_id)
               day_slots == FindFreeSlots(before, DateTime(call.new_time), d).slots
           IN  IF day_slots = <<>>
               THEN call.raised = "ValueError" /\ events = before
               ELSE /\ call.raised = "none"
                    /\ events[call.event_id].start
                           = SelectNearest(day_slots, call.new_time).start
                    /\ events[call.event_id].end
                           = SelectNearest(day_slots, call.new_time).start + d

\* the events of the day optimize_schedule was called for, before the call
DayEventsBefore ==
    {i \in DOMAIN before :
        /\ before[i].end > ReplaceMidnight(call.date).t
        /\ before[i].start < ReplaceMidnight(call.date).t + MinutesPerDay}

\* C8: optimize_schedule returns exactly one entry per event of the day and
\* never aborts because one event's conflict cannot be resolved: every entry
\* holds the event's original interval or the one it was moved to
C8_OneEntryPerEvent ==
    call.op = "optimize_schedule" =>
        LET result == call.optimized_schedule
        IN  /\ call.raised = "none"
            /\ Len(result) = Cardinality(DayEventsBefore)
            /\ \A i \in DayEventsBefore :
                   Cardinality({k \in 1..Len(result) : result[k].id = i}) = 1
            /\ \A k \in 1..Len(result) :
                   LET i == result[k].id
                   IN  \/ /\ result[k].start_time = before[i].start
                          /\ result[k].end_time = before[i].end
                       \/ /\ result[k].start_time = events[i].start
                          /\ result[k].end_time = events[i].end

---------------------------------------------------------------------------
(* What the two handlers leave in the calendar *)

Optimized == call.op = "optimize_schedule"

\* the stored calendar is `before` except that event id lies at [from, to)
OnlyMoved(id, from, to) ==
    /\ DOMAIN events = DOMAIN before
    /\ \A i \in DOMAIN before : i # id => events[i] = before[i]
    /\ events[id] = [before[id] EXCEPT !.start = from, !.end = to]

\* the entries of the result of optimize_schedule that moved their event
MovedEntries ==
    {k \in 1..Len(call.optimized_schedule) :
        LET e == call.optimized_schedule[k]
        IN  e.start_time # before[e.id].start \/ e.end_time # before[e.id].end}

---------------------------------------------------------------------------
(* SchedulerService.suggest_routine_times *)

\* for _ in range(7)
LookaheadDays == 7
\* date.weekday() is 0 (Monday) to 6 (Sunday)
DaysPerWeek == 7

\* routine_data.get('preferred_time'): None, or a datetime.time given in minutes
NoTime == [kind |-> "none", m |-> 0]
TimeOfDay(m) == [kind |-> "time", m |-> m]

\* x['start'].time() - preferred_time: datetime.time supports no subtraction,
\* the expression raises TypeError whatever preferred_time is
TimeMinus(a, b) == [raised |-> "TypeError", value |-> 0]

\* lines 147-153: the slot of a non-empty list taken for the day.  With a
\* preferred time, min() evaluates its key on the first slot, which raises.
BestRoutineSlot(found, preferred_time) ==
    IF preferred_time.kind # "none"
    THEN [raised |-> TimeMinus(found[1].start % MinutesPerDay, preferred_time.m).raised,
          slot |-> found[1]]
    ELSE [raised |-> "none", slot |-> found[1]]

\* current_date.weekday() of day n when today (day 0) has weekday today_weekday
Weekday(today_weekday, n) == (today_weekday + n) % DaysPerWeek

\* an entry of suggestions, lines 155-159
Suggestion(day, slot) == [date |-> day, start_time |-> slot.start, end_time |-> slot.end]

\* the for loop of suggest_routine_times, lines 137-161, from its pass number n
\* (current_date is day n): what it raises, the suggestions, the days it looked at
RECURSIVE SuggestLoop(_, _, _, _, _, _)
SuggestLoop(cal, routine, today_weekday, n, suggestions, visited) ==
    IF n >= LookaheadDays
    THEN [raised |-> "none", suggestions |-> suggestions, visited |-> visited]
    ELSE LET seen == Append(visited, n)
             found == FindFreeSlots(cal, Combine(DateOfDay(n)),
                                    routine.duration_minutes).slots
             best == BestRoutineSlot(found, routine.preferred_time)
         IN  IF Weekday(today_weekday, n) \notin routine.days_of_week \/ found = <<>>
             THEN SuggestLoop(cal, routine, today_weekday, n + 1, suggestions, seen)
             ELSE IF best.raised # "none"
             THEN [raised |-> best.raised, suggestions |-> suggestions, visited |-> seen]
             ELSE SuggestLoop(cal, routine, today_weekday, n + 1,
                              Append(suggestions, Suggestion(n, best.slot)), seen)

\* suggest_routine_times(routine_data) when today is day 0
SuggestRoutineTimes(cal, routine, today_weekday) ==
    SuggestLoop(cal, routine, today_weekday, 0, <<>>, <<>>)

\* the calendars it is called on: events of the seven days that take the first
\* part of a day or the whole day
RoutineIntervals ==
    {<<d * MinutesPerDay, d * MinutesPerDay + len>> :
        d \in 0..(LookaheadDays - 1), len \in {GridMinutes, MinutesPerDay}}
RoutineCalendars ==
    UNION {{[i \in 1..n |-> Event(q[i], "absent", "busy")] :
               q \in {q \in [1..n -> RoutineIntervals] :
                          \A i \in 1..(n - 1) : IntervalLeq(q[i], q[i + 1])}}
           : n \in 0..MaxEvents}

\* the requests: the default weekdays (Monday to Friday), the weekend, none
Routines ==
    [duration_minutes : TaskDurations,
     preferred_time : {NoTime, TimeOfDay(9 * MinutesPerHour)},
     days_of_week : {0..4, {5, 6}, {}}]

\* suggest_routine_times(routine_data), lines 127-163; reads only
SuggestRoutineTimesCall(routine, today_weekday) ==
    /\ call = NoCall
    /\ LET r == SuggestRoutineTimes(events, routine, today_weekday)
       IN  call' = [op |-> "suggest_routine_times", routine |-> routine,
                    today_weekday |-> today_weekday, raised |-> r.raised,
                    suggestions |-> r.suggestions, visited |-> r.visited]
    /\ before' = events
    /\ UNCHANGED <<events, ffsVars, clientVars>>

InitRoutine ==
    /\ events \in RoutineCalendars
    /\ IdleFfs
    /\ IdleClients
    /\ IdleCall

NextRoutine ==
    \E routine \in Routines, today_weekday \in 0..(DaysPerWeek - 1) :
        SuggestRoutineTimesCall(routine, today_weekday)

SpecRoutine == InitRoutine /\ [][NextRoutine]_vars

\* C12: suggest_routine_times looks at exactly the 7 consecutive days starting
\* with today, in order, and raises nothing; its suggestions are in strictly
\* increasing date order (so at most one per day), each for a day whose weekday
\* is allowed and for which find_free_slots returns a slot; without a preferred
\* time the suggestion of a day is that day's first free slot
C12_SevenDaysOneEach ==
    call.op = "suggest_routine_times" =>
        LET sugg == call.suggestions
            dur == call.routine.duration_minutes
        IN  /\ call.raised = "none"
            /\ call.visited = [n \in 1..LookaheadDays |-> n - 1]
            /\ \A k \in 1..(Len(sugg) - 1) : sugg[k].date < sugg[k + 1].date
            /\ \A k \in 1..Len(sugg) :
                   LET found == FindFreeSlots(before, DateTime(sugg[k].date * MinutesPerDay),
                                              dur).slots
                   IN  /\ sugg[k].date \in 0..(LookaheadDays - 1)
                       /\ Weekday(call.today_weekday, sugg[k].date)
                              \in call.routine.days_of_week
                       /\ found # <<>>
                       /\ call.routine.preferred_time = NoTime =>
                              /\ sugg[k].start_time = found[1].start
                              /\ sugg[k].end_time = found[1].end


\* C13: when the candidate [current_time, current_time + duration) is blocked,
\* the next candidate starts at max(current_time + 15 minutes, blockingEnd),
\* blockingEnd being the end of the first busy slot the candidate intersects:
\* at blockingEnd itself when that is no earlier than current_time + 15 minutes
C13_NextCandidate ==
    [][(f_pc = "loop" /\ f_pc' = "loop"
            /\ FirstBlocking(busy_slots, current_time, SlotEnd(current_time, f_dur)) # 0)
       => LET blockingEnd ==
                  busy_slots[FirstBlocking(busy_slots, current_time,
                                           SlotEnd(current_time, f_dur))][2]
          IN  /\ current_time' = IF current_time + StepMinutes >= blockingEnd
                                 THEN current_time + StepMinutes ELSE blockingEnd
              /\ blockingEnd >= current_time + StepMinutes => current_time' = blockingEnd]_vars


---------------------------------------------------------------------------
(* The order optimize_schedule works in *)

\* C14: optimize_schedule processes, and returns, the day's events in ascending
\* rank order (low 0, medium 1, high 2, urgent 3, no priority as medium, an
\* unrecognised priority 0), events of equal rank in their input order; the
\* events processed are those that come first in that order, all of them when
\* the call returns.  Of two overlapping events the one processed first keeps
\* its original interval, stored and in its entry, and only an event that
\* overlaps an earlier-processed one is tried for relocation.
C14_RankOrderStable ==
    Optimized =>
        LET rank(p) == CASE p = "low" -> 0
                         [] p = "medium" -> 1
                         [] p = "high" -> 2
                         [] p = "urgent" -> 3
                         [] p = "absent" -> 1
                         [] OTHER -> 0
            input == GetDailyAgenda(before, ReplaceMidnight(call.date).t)
            pos(i) == CHOOSE k \in 1..Len(input) : input[k] = i
            comesFirst(i, j) ==
                \/ rank(before[i].priority) < rank(before[j].priority)
                \/ /\ rank(before[i].priority) = rank(before[j].priority)
                   /\ pos(i) < pos(j)
            done == call.optimized_schedule
            ids == {done[k].id : k \in 1..Len(done)}
            waiting == DayEventsBefore \ ids
            overlapsDone(j) ==
                \E k \in 1..Len(done) :
                    Overlap(before[j].start, before[j].end,
                            done[k].start_time, done[k].end_time)
        IN  /\ ids \subseteq DayEventsBefore
            /\ \A k, l \in 1..Len(done) : k < l => comesFirst(done[k].id, done[l].id)
            /\ \A k \in 1..Len(done) : \A j \in waiting : comesFirst(done[k].id, j)
            /\ call.raised = "none" => waiting = {}
            /\ \A k, l \in 1..Len(done) :
                   (k < l /\ Overlap(before[done[k].id].start, before[done[k].id].end,
                                     before[done[l].id].start, before[done[l].id].end))
                       => /\ done[k].start_time = before[done[k].id].start
                          /\ done[k].end_time = before[done[k].id].end
                          /\ events[done[k].id] = before[done[k].id]
            /\ \A j \in waiting :
                   (\A i \in waiting : i = j \/ comesFirst(j, i))
                       => /\ overlapsDone(j)
                          /\ \A k \in 1..Len(done) :
                                 /\ done[k].start_time = before[done[k].id].start
                                 /\ done[k].end_time = before[done[k].id].end
                                 /\ events[done[k].id] = before[done[k].id]

\* two overlapping events, the one later in the input of lower rank: it was
\* processed first and kept its interval, and the relocation of the other was
\* tried
C14_Witness ==
    /\ Optimized
    /\ Len(before) = 2
    /\ Overlap(before[1].start, before[1].end, before[2].start, before[2].end)
    /\ before[1].start < before[2].start
    /\ before[1].priority = "urgent"
    /\ before[2].priority = "absent"
    /\ Len(call.optimized_schedule) = 1
    /\ call.optimized_schedule[1] = Entry(2, before[2].start, before[2].end)
    /\ call.raised # "none"


\* C15: in optimize_schedule an event that conflicts with the entries already
\* placed is relocated with those entries alone as the busy set: every event
\* of the day gets its entry, of the event's duration, and an entry overlaps
\* an earlier one only when the day has no start, in steps of 15 minutes, at
\* which the event would be clear of all earlier entries
C15_RelocatedAgainstAccumulator ==
    Optimized =>
        LET done == call.optimized_schedule
            dayStart == ReplaceMidnight(call.date).t
            placedBefore(l, from, to) ==
                \E k \in 1..(l - 1) :
                    Overlap(from, to, done[k].start_time, done[k].end_time)
        IN  /\ Len(done) = Cardinality(DayEventsBefore)
            /\ \A l \in 1..Len(done) :
                   LET d == OriginalDuration(done[l].id)
                   IN  /\ done[l].end_time - done[l].start_time = d
                       /\ placedBefore(l, done[l].start_time, done[l].end_time) =>
                              \A n \in 0..((MinutesPerDay - d) \div StepMinutes) :
                                  placedBefore(l, dayStart + n * StepMinutes,
                                               dayStart + n * StepMinutes + d)


---------------------------------------------------------------------------
(* Completeness of find_free_slots *)

\* C16: for a duration D > 0, when the day window has a start t, in steps of
\* 15 minutes, at which [t, t + D) lies in the window and overlaps no busy
\* slot, the sequence find_free_slots returns is not empty
C16_FindsAFreeSlot ==
    (f_pc = "done" /\ f_dur > 0) =>
        ((\E n \in 0..((MinutesPerDay - f_dur) \div StepMinutes) :
             LET t == start_time + n * StepMinutes
             IN  /\ t + f_dur <= end_time
                 /\ \A k \in 1..Len(busy_slots) :
                        ~Overlap(t, t + f_dur, busy_slots[k][1], busy_slots[k][2]))
            => free_slots # <<>>)


---------------------------------------------------------------------------
(* SchedulerService.schedule_task as one call *)

\* task.get('priority', 'medium')
PriorityOf(t) == IF t.priority = "absent" THEN "medium" ELSE t.priority

\* schedule_task(task), lines 13-50, run without interruption: what it raises,
\* the calendar it leaves, the list find_free_slots gave it last and the slot
\* it selected
ScheduleTask(cal, t) ==
    LET first_try == FindFreeSlots(cal, Combine(DateOfDay(t.preferred_date)),
                                   t.duration_minutes).slots
        found == IF first_try # <<>> THEN first_try
                 ELSE FindFreeSlots(cal, Combine(DateOfDay(NextDate(t.preferred_date))),
                                    t.duration_minutes).slots
        selected_slot == SelectBestSlot(found, PriorityOf(t))
    IN  IF found = <<>>
        THEN [raised |-> "ValueError", cal |-> cal, free_slots |-> found,
              selected_slot |-> Slot(0, 0)]
        ELSE [raised |-> "none",
              cal |-> CreateEvent(cal, t.title, selected_slot.start, selected_slot.end),
              free_slots |-> found, selected_slot |-> selected_slot]

\* the tasks of the call: every configured priority and none, three durations
CallDurations == {4 * MinutesPerHour, 8 * MinutesPerHour, MinutesPerDay}
CallPriorities == {PRIORITY_LEVELS[k] : k \in 1..Len(PRIORITY_LEVELS)} \cup {"absent"}
CallTasks ==
    [title : {"task"}, duration_minutes : CallDurations, preferred_date : PreferredDates,
     priority : CallPriorities]

\* schedule_task(task), lines 13-50
ScheduleTaskCall(t) ==
    /\ call = NoCall
    /\ LET r == ScheduleTask(events, t)
       IN  /\ events' = r.cal
           /\ call' = [op |-> "schedule_task", task |-> t, raised |-> r.raised,
                       free_slots |-> r.free_slots, selected_slot |-> r.selected_slot]
    /\ before' = events
    /\ UNCHANGED <<ffsVars, clientVars>>

InitTask ==
    /\ events \in PlainCalendars
    /\ IdleFfs
    /\ IdleClients
    /\ IdleCall

NextTask == \E t \in CallTasks : ScheduleTaskCall(t)

SpecTask == InitTask /\ [][NextTask]_vars

\* C17: the slot schedule_task selects is the first of the list find_free_slots
\* gave it, whatever the priority: for the same calendar, duration and
\* preferred date the call with priority low, medium, high or urgent (or none)
\* ends the same way, with the same selected interval and the same event stored
C17_PriorityBlind ==
    call.op = "schedule_task" =>
        /\ call.raised = "none" =>
               /\ call.selected_slot = call.free_slots[1]
               /\ events[Len(events)].start = call.free_slots[1].start
               /\ events[Len(events)].end = call.free_slots[1].end
        /\ \A p \in CallPriorities :
               LET other == ScheduleTask(before, [call.task EXCEPT !.priority = p])
               IN  /\ other.raised = call.raised
                   /\ other.selected_slot = call.selected_slot
                   /\ other.cal = events

\* an urgent task on a day with an event, given a list that has morning and
\* afternoon slots, stored at the first slot
C17_Witness ==
    /\ call.op = "schedule_task"
    /\ call.task.priority = "urgent"
    /\ call.raised = "none"
    /\ before # <<>>
    /\ Len(call.free_slots) >= 2
    /\ IsMorning(call.free_slots[1])
    /\ ~IsMorning(call.free_slots[Len(call.free_slots)])
    /\ events[Len(events)].start = call.free_slots[1].start

=============================================================================
